---- MODULE Spec2Model ----
(***************************************************************************)
(* Model of court_booker.py: main's flow (prompt, login, wait_until, the   *)
(* retry loop) and attempt_booking's page steps.                           *)
(*                                                                         *)
(* Time is counted in ticks of 500 ms, the common divisor of every delay   *)
(* and timeout of the source (500, 1000, 1500, 3000, 5000, 10000 ms, 5 s,  *)
(* 6 s, 600 s).  The clock `now` is exact below Horizon and stays at       *)
(* Horizon once it gets there; every target the program compares the clock *)
(* with is below Horizon, so each comparison keeps its outcome.            *)
(*                                                                         *)
(* The remote page is the environment: each query finds its element or     *)
(* not, each wait succeeds or times out, each click succeeds or raises.    *)
(***************************************************************************)
EXTENDS Integers, Sequences, FiniteSets, TLC

VARIABLES
    DEV_MODE,        \* module flag, line 10
    pc,              \* position of the single flow of control
    now,             \* wall clock, in ticks
    exc,             \* "none", or the operation whose exception is propagating
    booking_dt,      \* main's booking_dt: NoDt or [at, hour, minute]
    prompts,         \* inputs the running prompt_booking_datetime has rejected
    browser,         \* "none" | "open" | "closed"
    logged_in,       \* main's logged_in
    closes,          \* number of calls of browser.close()
    on_booking_page, \* page.goto(booking_url) of line 237 was made
    target_dt,       \* wait_until's parameter
    wait_now,        \* wait_until's local `now`
    seconds,         \* wait_until's local `seconds`
    wait_sleeps,     \* number of asyncio.sleep calls made by wait_until
    wait_slept,      \* sum of the durations wait_until handed to asyncio.sleep
    retries,         \* main's retries
    success,         \* main's success
    attempts,        \* number of calls of attempt_booking
    loop_sleeps,     \* number of asyncio.sleep(5) calls made by the retry loop
    all_na,          \* every finished attempt so far ended at line 142
    fail_msg,        \* line 257 was printed
    steps,           \* page steps the current attempt has completed, in order
    slot_button,     \* attempt_booking's slot_button: the label of the button found
    time_label,      \* attempt_booking's time_str, lines 115-118
    msg,             \* last line printed by the current attempt
    dropdown_button  \* attempt_booking's dropdown_button: "unset" | "element" | "null"

vars == <<DEV_MODE, pc, now, exc, booking_dt, prompts, browser, logged_in, closes,
          on_booking_page,
          target_dt, wait_now, seconds, wait_sleeps, wait_slept, retries, success,
          attempts,
          loop_sleeps, all_na, fail_msg, steps, slot_button, time_label, msg,
          dropdown_button>>

mainVars == <<booking_dt, prompts, browser, logged_in, closes, on_booking_page>>
waitVars == <<target_dt, wait_now, seconds, wait_sleeps, wait_slept>>
loopVars == <<retries, success, attempts, loop_sleeps, all_na, fail_msg>>
attemptVars == <<steps, slot_button, time_label, msg, dropdown_button>>

----------------------------------------------------------------------------
(* Bounds of the model *)

\* largest offset (ticks after the program starts) of an entered booking time
MaxTarget == 20
\* ticks the user may spend on one pair of input() calls
MaxInputDelay == 1
\* rejected inputs after which the model asks no more
MaxPrompts == 2
\* ticks a sleep may last beyond the requested duration
MaxOvershoot == 1
\* ticks a page wait that succeeds may take (never more than its timeout)
MaxPageDelay == 1
\* slot buttons the page shows at once
MaxButtons == 2

Min(a, b) == IF a <= b THEN a ELSE b
Max(a, b) == IF a >= b THEN a ELSE b

\* milliseconds and seconds in ticks
Ms(ms) == ms \div 500
Secs(s) == 2 * s

----------------------------------------------------------------------------
(* Program constants *)

max_retries == 24
\* faulty variant: the retry sleeps twice as long
RetryDelayDoubled == Secs(10)

\* asyncio.sleep(5) of the retry loop
RetryDelay == Secs(5)
\* the slice of wait_until: min(seconds, 5)
WaitSlice == Secs(5)
\* timedelta(seconds=6) of the DEV_MODE wait
DevWait == Secs(6)
\* asyncio.sleep(600) of DEV_MODE
DevInspect == Secs(600)
\* page.wait_for_timeout(3000) after the booking page is opened
PageLoadWait == Ms(3000)
LoginTimeout == Ms(10000)
CalendarWait == Ms(1000)
SlotsWait == Ms(1500)
ModalTimeout == Ms(5000)
OptionsTimeout == Ms(3000)
DurationWait == Ms(500)
DetachTimeout == Ms(5000)

\* The clock is exact below Horizon: no run reaches it before wait_until
\* has returned (ClockExactUntilLoop).
Horizon ==
    MaxPrompts * MaxInputDelay + MaxInputDelay + MaxPageDelay + PageLoadWait
      + Max(MaxTarget, DevWait) + 4 * MaxOvershoot + 1

Tick(t, d) == Min(t + d, Horizon)

\* a counter of the model, kept finite one past the largest value the loop allows
Count(n) == IF n <= max_retries THEN n + 1 ELSE n

----------------------------------------------------------------------------
(* Labels: strings as sequences of characters *)

Digit == <<"0", "1", "2", "3", "4", "5", "6", "7", "8", "9">>
DigitChar(d) == Digit[d + 1]

\* faulty variant: strftime %I, the hour padded to two digits
FormatHour12Padded(h) ==
    LET h12 == IF h % 12 = 0 THEN 12 ELSE h % 12
    IN  <<DigitChar(h12 \div 10), DigitChar(h12 % 10)>>

\* strftime %-I (or %#I): hour on the 12-hour clock, no leading zero
FormatHour12(h) ==
    LET h12 == IF h % 12 = 0 THEN 12 ELSE h % 12
    IN  IF h12 >= 10 THEN <<DigitChar(h12 \div 10), DigitChar(h12 % 10)>>
                     ELSE <<DigitChar(h12)>>

\* strftime %M
FormatMinute(m) == <<DigitChar(m \div 10), DigitChar(m % 10)>>

\* strftime %p
FormatAmPm(h) == IF h < 12 THEN <<"A", "M">> ELSE <<"P", "M">>

\* attempt_booking's time_str
time_str(dt) ==
    FormatHour12(dt.hour) \o <<":">> \o FormatMinute(dt.minute) \o <<" ">> \o FormatAmPm(dt.hour)

\* strptime %I ... %p: the 24-hour hour of a 12-hour input
ParseHour(h12, pm) == (h12 % 12) + (IF pm THEN 12 ELSE 0)

\* Playwright's :has-text("needle"): the element's text contains needle
HasText(label, needle) ==
    \E i \in 0..(Len(label) - Len(needle)) : SubSeq(label, i + 1, i + Len(needle)) = needle

\* query_selector: the first element in document order that matches, 0 for None
FirstMatch(layout, needle) ==
    IF \E i \in 1..Len(layout) : HasText(layout[i], needle)
    THEN CHOOSE i \in 1..Len(layout) :
            /\ HasText(layout[i], needle)
            /\ \A j \in 1..(i - 1) : ~HasText(layout[j], needle)
    ELSE 0

----------------------------------------------------------------------------
(* Inputs and the page *)

NoDt == [at |-> -1, hour |-> 0, minute |-> 0]
NoLabel == <<>>

\* times of day the user enters (HH:MM AM/PM)
InputTimes ==
    { [h12 |-> 2, minute |-> 5, pm |-> TRUE],
      [h12 |-> 12, minute |-> 30, pm |-> FALSE] }

\* labels of the slot buttons the site may show
SlotLabels ==
    { <<"2", ":", "0", "5", " ", "P", "M">>,
      <<"1", "2", ":", "0", "5", " ", "P", "M">>,
      <<"1", "2", ":", "3", "0", " ", "A", "M">> }

\* the slot buttons of the page, in document order
Layouts == UNION { [1..n -> SlotLabels] : n \in 0..MaxButtons }

\* durations of a wait that succeeds within its timeout
Delays(timeout) == 0..Min(timeout, MaxPageDelay)

\* durations of a sleep of d ticks
SleepTimes(d) == d..(d + MaxOvershoot)

----------------------------------------------------------------------------
(* Conditions and assignments of the source, as operators *)

\* faulty variant: `if dt < datetime.now()`
NotInFutureStrict(dt_at, t) == dt_at < t

\* line 49: the entered time is rejected
NotInFuture(dt_at, t) == dt_at <= t

\* faulty variant: the DEV_MODE target whatever the flag
WaitTargetAlwaysDev(dev, t, dt) == t + DevWait

\* lines 240-244: the target main passes to wait_until
WaitTarget(dev, t, dt) == IF dev THEN t + DevWait ELSE dt.at

\* faulty variant: `while seconds != 0`
WaitContinuesNonZero(s) == s # 0

\* line 100
WaitContinues(s) == s > 0

\* faulty variant: the slice cut to whole seconds, as the printed int(seconds) is
SliceLenWholeSeconds(s) == Min(Secs(s \div Secs(1)), WaitSlice)

\* faulty variant: every sleep is a full slice
SliceLenFull(s) == WaitSlice

\* line 102: the duration handed to asyncio.sleep
SliceLen(s) == Min(s, WaitSlice)

\* line 103
Remaining(s) == s - Min(s, WaitSlice)

\* faulty variant: `retries <= max_retries`
LoopContinuesOffByOne(r, s) == r <= max_retries /\ ~s

\* faulty variant: the loop does not test success
LoopContinuesIgnoringSuccess(r, s) == r < max_retries

\* line 250
LoopContinues(r, s) == r < max_retries /\ ~s

\* faulty variant: the increment is lost
NextRetriesStuck(r) == r

\* faulty variant: `retries += 2`
NextRetriesByTwo(r) == r + 2

\* line 253
NextRetries(r) == r + 1

\* line 163: a JSHandle is an object, true whatever it refers to
Truthy(handle) == handle \in {"element", "null"}

\* faulty variant: a modal that stays open fails the attempt
UncertainAsFailure == [value |-> FALSE, line |-> "uncertain"]

\* lines 210-215: what the attempt returns and prints after the save click
ClosedOutcome == [value |-> TRUE, line |-> "closed"]
UncertainOutcome == [value |-> TRUE, line |-> "uncertain"]

----------------------------------------------------------------------------
Init ==
    /\ DEV_MODE \in BOOLEAN
    /\ pc = "prompt"
    /\ now = 0
    /\ exc = "none"
    /\ booking_dt = NoDt
    /\ prompts = 0
    /\ browser = "none"
    /\ logged_in = FALSE
    /\ closes = 0
    /\ on_booking_page = FALSE
    /\ target_dt = 0
    /\ wait_now = 0
    /\ seconds = 0
    /\ wait_sleeps = 0
    /\ wait_slept = 0
    /\ retries = 0
    /\ success = FALSE
    /\ attempts = 0
    /\ loop_sleeps = 0
    /\ all_na = TRUE
    /\ fail_msg = FALSE
    /\ steps = <<>>
    /\ slot_button = NoLabel
    /\ time_label = NoLabel
    /\ msg = "none"
    /\ dropdown_button = "unset"

\* an exception that nothing catches: it leaves attempt_booking, main and asyncio.run
Raise(cause) ==
    /\ pc' = "crashed"
    /\ exc' = cause
    /\ UNCHANGED <<DEV_MODE, now, mainVars, waitVars, loopVars, attemptVars>>

----------------------------------------------------------------------------
(* prompt_booking_datetime, lines 43-54 *)

\* the input does not parse: ValueError, ask again
PromptMalformed ==
    /\ pc = "prompt"
    /\ prompts < MaxPrompts
    /\ \E d \in 0..MaxInputDelay : now' = Tick(now, d)
    /\ prompts' = prompts + 1
    /\ UNCHANGED <<DEV_MODE, pc, exc, booking_dt, browser, logged_in, waitVars, loopVars,
                   attemptVars,
                   closes, on_booking_page>>

\* the input parses and is not after the current time: ask again
PromptNotFuture ==
    /\ pc = "prompt"
    /\ prompts < MaxPrompts
    /\ \E d \in 0..MaxInputDelay, a \in 0..MaxTarget :
          /\ now' = Tick(now, d)
          /\ NotInFuture(a, now')
    /\ prompts' = prompts + 1
    /\ UNCHANGED <<DEV_MODE, pc, exc, booking_dt, browser, logged_in, waitVars, loopVars,
                   attemptVars,
                   closes, on_booking_page>>

\* the input parses and is after the current time: return it
PromptAccepted ==
    /\ pc = "prompt"
    /\ \E d \in 0..MaxInputDelay, a \in 0..MaxTarget, t \in InputTimes :
          /\ now' = Tick(now, d)
          /\ ~NotInFuture(a, now')
          /\ booking_dt' = [at |-> a, hour |-> ParseHour(t.h12, t.pm), minute |-> t.minute]
    /\ prompts' = 0
    /\ pc' = "launch"
    /\ UNCHANGED <<DEV_MODE, exc, browser, logged_in, waitVars, loopVars, attemptVars,
                   closes, on_booking_page>>

----------------------------------------------------------------------------
(* main up to the retry loop, lines 225-244, and login, lines 57-92 *)

Launch ==
    /\ pc = "launch"
    /\ browser' = "open"
    /\ pc' = "login_goto"
    /\ UNCHANGED <<DEV_MODE, now, exc, booking_dt, prompts, logged_in, waitVars, loopVars,
                   attemptVars,
                   closes, on_booking_page>>

LoginGoto ==
    /\ pc = "login_goto"
    /\ \/ /\ pc' = "login_form"
          /\ UNCHANGED <<DEV_MODE, now, exc, mainVars, waitVars, loopVars, attemptVars>>
       \/ Raise("login_goto")

\* lines 63-83: the form is filled and submitted, or the session is already logged in;
\* page.wait_for_navigation raises and line 80 catches it
LoginForm ==
    /\ pc = "login_form"
    /\ \/ /\ pc' = "login_confirm"
          /\ UNCHANGED <<DEV_MODE, now, exc, mainVars, waitVars, loopVars, attemptVars>>
       \/ Raise("login_submit")

\* lines 86-92
LoginConfirm ==
    /\ pc = "login_confirm"
    /\ \/ /\ \E d \in Delays(LoginTimeout) : now' = Tick(now, d)
          /\ logged_in' = TRUE
       \/ /\ now' = Tick(now, LoginTimeout)
          /\ logged_in' = FALSE
    /\ pc' = "login_check"
    /\ UNCHANGED <<DEV_MODE, exc, booking_dt, prompts, browser, waitVars, loopVars,
                   attemptVars,
                   closes, on_booking_page>>

\* faulty variant: the early return forgets browser.close()
LoginFailedNoClose ==
    /\ pc = "login_check"
    /\ ~logged_in
    /\ pc' = "done"
    /\ UNCHANGED <<DEV_MODE, now, exc, mainVars, waitVars, loopVars, attemptVars>>

\* lines 230-233
LoginFailed ==
    /\ pc = "login_check"
    /\ ~logged_in
    /\ browser' = "closed"
    /\ closes' = closes + 1
    /\ pc' = "done"
    /\ UNCHANGED <<DEV_MODE, now, exc, booking_dt, prompts, logged_in, on_booking_page,
                   waitVars, loopVars, attemptVars>>

\* lines 236-238
GotoBooking ==
    /\ pc = "login_check"
    /\ logged_in
    /\ \/ /\ \E t \in SleepTimes(PageLoadWait) : now' = Tick(now, t)
          /\ on_booking_page' = TRUE
          /\ pc' = "wait_call"
          /\ UNCHANGED <<DEV_MODE, exc, booking_dt, prompts, browser, logged_in, closes,
                         waitVars, loopVars, attemptVars>>
       \/ Raise("goto_booking")

----------------------------------------------------------------------------
(* wait_until, lines 95-103, called from lines 240-244 *)

WaitCall ==
    /\ pc = "wait_call"
    /\ target_dt' = WaitTarget(DEV_MODE, now, booking_dt)
    /\ wait_now' = now
    /\ seconds' = target_dt' - wait_now'
    /\ wait_sleeps' = 0
    /\ wait_slept' = 0
    /\ pc' = "wait_loop"
    /\ UNCHANGED <<DEV_MODE, now, exc, mainVars, loopVars, attemptVars>>

WaitSleep ==
    /\ pc = "wait_loop"
    /\ WaitContinues(seconds)
    /\ \E t \in SleepTimes(SliceLen(seconds)) : now' = Tick(now, t)
    /\ seconds' = Remaining(seconds)
    /\ wait_sleeps' = wait_sleeps + 1
    /\ wait_slept' = wait_slept + SliceLen(seconds)
    /\ UNCHANGED <<DEV_MODE, pc, exc, mainVars, target_dt, wait_now, loopVars, attemptVars>>

\* line 100 fails: the function is about to return
WaitExit ==
    /\ pc = "wait_loop"
    /\ ~WaitContinues(seconds)
    /\ pc' = "wait_return"
    /\ UNCHANGED <<DEV_MODE, now, exc, mainVars, waitVars, loopVars, attemptVars>>

\* the return to main: wait_until's parameter and locals are gone
WaitReturn ==
    /\ pc = "wait_return"
    /\ target_dt' = 0
    /\ wait_now' = 0
    /\ seconds' = 0
    /\ wait_sleeps' = 0
    /\ wait_slept' = 0
    /\ pc' = "loop_init"
    /\ UNCHANGED <<DEV_MODE, now, exc, mainVars, loopVars, attemptVars>>

----------------------------------------------------------------------------
(* the retry loop, lines 246-257, and the end of main, lines 259-265 *)

LoopInit ==
    /\ pc = "loop_init"
    /\ retries' = 0
    /\ success' = FALSE
    /\ pc' = "loop_test"
    /\ UNCHANGED <<DEV_MODE, now, exc, mainVars, waitVars, attempts, loop_sleeps, all_na,
                   fail_msg, attemptVars>>

\* line 250 holds: line 251 calls attempt_booking
LoopEnter ==
    /\ pc = "loop_test"
    /\ LoopContinues(retries, success)
    /\ attempts' = Count(attempts)
    /\ steps' = <<>>
    /\ slot_button' = NoLabel
    /\ time_label' = time_str(booking_dt)
    /\ msg' = "none"
    /\ dropdown_button' = "unset"
    /\ pc' = "a_toggle_q"
    /\ UNCHANGED <<DEV_MODE, now, exc, mainVars, waitVars, retries, success, loop_sleeps,
                   all_na, fail_msg>>

LoopExit ==
    /\ pc = "loop_test"
    /\ ~LoopContinues(retries, success)
    /\ pc' = "after_loop"
    /\ UNCHANGED <<DEV_MODE, now, exc, mainVars, waitVars, loopVars, attemptVars>>

\* lines 252-254 after a failed attempt
RetryFailed ==
    /\ pc = "loop_check"
    /\ ~success
    /\ retries' = NextRetries(retries)
    /\ \E t \in SleepTimes(RetryDelay) : now' = Tick(now, t)
    /\ loop_sleeps' = Count(loop_sleeps)
    /\ pc' = "loop_test"
    /\ UNCHANGED <<DEV_MODE, exc, mainVars, waitVars, success, attempts, all_na, fail_msg,
                   attemptVars>>

\* line 252 after a successful attempt
RetrySucceeded ==
    /\ pc = "loop_check"
    /\ success
    /\ pc' = "loop_test"
    /\ UNCHANGED <<DEV_MODE, now, exc, mainVars, waitVars, loopVars, attemptVars>>

\* lines 256-257
AfterLoop ==
    /\ pc = "after_loop"
    /\ fail_msg' = ~success
    /\ pc' = "dev_check"
    /\ UNCHANGED <<DEV_MODE, now, exc, mainVars, waitVars, retries, success, attempts,
                   loop_sleeps, all_na, attemptVars>>

\* lines 259-262
DevInspectSleep ==
    /\ pc = "dev_check"
    /\ IF DEV_MODE
       THEN \E t \in SleepTimes(DevInspect) : now' = Tick(now, t)
       ELSE now' = now
    /\ pc' = "close"
    /\ UNCHANGED <<DEV_MODE, exc, mainVars, waitVars, loopVars, attemptVars>>

\* lines 264-265
Close ==
    /\ pc = "close"
    /\ browser' = "closed"
    /\ closes' = closes + 1
    /\ pc' = "done"
    /\ UNCHANGED <<DEV_MODE, now, exc, booking_dt, prompts, logged_in, on_booking_page,
                   waitVars, loopVars, attemptVars>>

----------------------------------------------------------------------------
(* attempt_booking, lines 108-215 *)

\* `return value` after printing `line`, the attempt's steps being `done`;
\* line 251 assigns the value to success
ReturnWith(value, line, done) ==
    /\ success' = value
    /\ msg' = line
    /\ steps' = done
    /\ all_na' = (all_na /\ line = "slot_unavailable")
    /\ pc' = "loop_check"
    /\ UNCHANGED <<DEV_MODE, exc, mainVars, waitVars, retries, attempts, loop_sleeps,
                   fail_msg, slot_button, dropdown_button, time_label>>

Return(value, line) == ReturnWith(value, line, steps)

\* the attempt goes on to position `next`
Goto(next) ==
    /\ pc' = next
    /\ UNCHANGED <<DEV_MODE, exc, mainVars, waitVars, loopVars>>

\* lines 122-125
ToggleQuery ==
    /\ pc = "a_toggle_q"
    /\ \/ Goto("a_toggle_click") /\ UNCHANGED <<now, attemptVars>>
       \/ Return(FALSE, "toggle_missing") /\ UNCHANGED now

\* lines 126-127
ToggleClick ==
    /\ pc = "a_toggle_click"
    /\ \/ /\ Goto("a_date_q")
          /\ steps' = Append(steps, "toggle")
          /\ \E t \in SleepTimes(CalendarWait) : now' = Tick(now, t)
          /\ UNCHANGED <<slot_button, msg, dropdown_button, time_label>>
       \/ Raise("toggle_click")

\* lines 130-133
DateQuery ==
    /\ pc = "a_date_q"
    /\ \/ Goto("a_date_click") /\ UNCHANGED <<now, attemptVars>>
       \/ Return(FALSE, "date_missing") /\ UNCHANGED now

\* lines 135-136
DateClick ==
    /\ pc = "a_date_click"
    /\ \/ /\ Goto("a_slot_q")
          /\ steps' = Append(steps, "date")
          /\ \E t \in SleepTimes(SlotsWait) : now' = Tick(now, t)
          /\ UNCHANGED <<slot_button, msg, dropdown_button, time_label>>
       \/ Raise("date_click")

\* lines 139-142: the first button whose text contains time_str, or None
SlotQuery ==
    /\ pc = "a_slot_q"
    /\ \E layout \in Layouts :
          LET i == FirstMatch(layout, time_label)
          IN  IF i = 0
              THEN Return(FALSE, "slot_unavailable")
              ELSE /\ Goto("a_slot_click")
                   /\ slot_button' = layout[i]
                   /\ UNCHANGED <<steps, msg, dropdown_button, time_label>>
    /\ UNCHANGED now

\* lines 144-145
SlotClick ==
    /\ pc = "a_slot_click"
    /\ \/ /\ Goto("a_modal_wait")
          /\ steps' = Append(steps, "slot")
          /\ msg' = "selected"
          /\ UNCHANGED <<now, slot_button, dropdown_button, time_label>>
       \/ Raise("slot_click")

\* line 148: no try around this wait
ModalWait ==
    /\ pc = "a_modal_wait"
    /\ \/ /\ Goto("a_restype_q")
          /\ steps' = Append(steps, "modal")
          /\ \E t \in Delays(ModalTimeout) : now' = Tick(now, t)
          /\ UNCHANGED <<slot_button, msg, dropdown_button, time_label>>
       \/ /\ pc' = "crashed"
          /\ exc' = "modal_timeout"
          /\ now' = Tick(now, ModalTimeout)
          /\ UNCHANGED <<DEV_MODE, mainVars, waitVars, loopVars, attemptVars>>

\* lines 155-158
ReservationTypeQuery ==
    /\ pc = "a_restype_q"
    /\ \/ Goto("a_dropdown_eval") /\ UNCHANGED <<now, attemptVars>>
       \/ Return(FALSE, "restype_missing") /\ UNCHANGED now

\* lines 160-163 and 180-182: evaluate_handle gives a handle of the button or of
\* null; the else branch sets the value with select_option
DropdownEval ==
    /\ pc = "a_dropdown_eval"
    /\ \E handle \in {"element", "null"} :
          /\ dropdown_button' = handle
          /\ IF Truthy(handle)
             THEN Goto("a_dropdown_click") /\ UNCHANGED steps
             ELSE Goto("a_duration_q") /\ steps' = Append(steps, "restype")
    /\ UNCHANGED <<now, slot_button, msg, time_label>>

\* line 164: a handle of null has no click method
DropdownClick ==
    /\ pc = "a_dropdown_click"
    /\ \/ /\ dropdown_button = "element"
          /\ Goto("a_options_wait")
          /\ UNCHANGED <<now, attemptVars>>
       \/ Raise("dropdown_click")

\* lines 166-170
OptionsWait ==
    /\ pc = "a_options_wait"
    /\ \/ /\ Goto("a_options_q")
          /\ \E t \in Delays(OptionsTimeout) : now' = Tick(now, t)
          /\ UNCHANGED attemptVars
       \/ /\ Return(FALSE, "options_timeout")
          /\ now' = Tick(now, OptionsTimeout)

\* faulty variant: an empty option list is logged and the attempt goes on
OptionsQueryEmptyIgnored ==
    /\ pc = "a_options_q"
    /\ \/ /\ Goto("a_duration_q")
          /\ steps' = Append(steps, "restype")
          /\ UNCHANGED <<now, slot_button, msg, dropdown_button, time_label>>
       \/ Raise("option_click")
       \/ /\ Goto("a_duration_q")
          /\ msg' = "no_options"
          /\ UNCHANGED <<now, steps, slot_button, dropdown_button, time_label>>

\* lines 172-179
OptionsQuery ==
    /\ pc = "a_options_q"
    /\ \/ /\ Goto("a_duration_q")
          /\ steps' = Append(steps, "restype")
          /\ UNCHANGED <<now, slot_button, msg, dropdown_button, time_label>>
       \/ Raise("option_click")
       \/ Return(FALSE, "no_options") /\ UNCHANGED now

\* faulty variant: a missing duration control ends the attempt
DurationQueryFatal ==
    /\ pc = "a_duration_q"
    /\ \/ Goto("a_duration_click") /\ UNCHANGED <<now, attemptVars>>
       \/ /\ ReturnWith(FALSE, "duration_missing", Append(steps, "duration_absent"))
          /\ UNCHANGED now

\* lines 187-188 and 196-197
DurationQuery ==
    /\ pc = "a_duration_q"
    /\ \/ Goto("a_duration_click") /\ UNCHANGED <<now, attemptVars>>
       \/ /\ Goto("a_save_q")
          /\ msg' = "duration_missing"
          /\ steps' = Append(steps, "duration_absent")
          /\ UNCHANGED <<now, slot_button, dropdown_button, time_label>>

\* lines 189-190
DurationClick ==
    /\ pc = "a_duration_click"
    /\ \/ /\ Goto("a_duration_opt_q")
          /\ steps' = Append(steps, "duration_open")
          /\ \E t \in SleepTimes(DurationWait) : now' = Tick(now, t)
          /\ UNCHANGED <<slot_button, msg, dropdown_button, time_label>>
       \/ Raise("duration_click")

\* lines 191-195
DurationOptionQuery ==
    /\ pc = "a_duration_opt_q"
    /\ \/ /\ Goto("a_save_q")
          /\ steps' = Append(steps, "duration")
          /\ UNCHANGED <<now, slot_button, msg, dropdown_button, time_label>>
       \/ Raise("duration_option_click")
       \/ /\ Goto("a_save_q")
          /\ msg' = "duration_options_missing"
          /\ steps' = Append(steps, "duration_options_absent")
          /\ UNCHANGED <<now, slot_button, dropdown_button, time_label>>

\* faulty variant: line 203's return is missing
SaveQueryNoReturn ==
    /\ pc = "a_save_q"
    /\ \/ Goto("a_save_click") /\ UNCHANGED <<now, attemptVars>>
       \/ /\ Goto("a_save_click")
          /\ msg' = "save_missing"
          /\ UNCHANGED <<now, steps, slot_button, dropdown_button, time_label>>

\* lines 200-203
SaveQuery ==
    /\ pc = "a_save_q"
    /\ \/ Goto("a_save_click") /\ UNCHANGED <<now, attemptVars>>
       \/ Return(FALSE, "save_missing") /\ UNCHANGED now

\* lines 205-206
SaveClick ==
    /\ pc = "a_save_click"
    /\ \/ /\ Goto("a_detach_wait")
          /\ steps' = Append(steps, "save")
          /\ msg' = "submitted"
          /\ UNCHANGED <<now, slot_button, dropdown_button, time_label>>
       \/ Raise("save_click")

\* lines 209-215
DetachWait ==
    /\ pc = "a_detach_wait"
    /\ \/ /\ ReturnWith(ClosedOutcome.value, ClosedOutcome.line, Append(steps, "detached"))
          /\ \E t \in Delays(DetachTimeout) : now' = Tick(now, t)
       \/ /\ ReturnWith(UncertainOutcome.value, UncertainOutcome.line,
                         Append(steps, "still_open"))
          /\ now' = Tick(now, DetachTimeout)

----------------------------------------------------------------------------
Next ==
    \/ PromptMalformed
    \/ PromptNotFuture
    \/ PromptAccepted
    \/ Launch
    \/ LoginGoto
    \/ LoginForm
    \/ LoginConfirm
    \/ LoginFailed
    \/ GotoBooking
    \/ WaitCall
    \/ WaitSleep
    \/ WaitExit
    \/ WaitReturn
    \/ LoopInit
    \/ LoopEnter
    \/ LoopExit
    \/ RetryFailed
    \/ RetrySucceeded
    \/ AfterLoop
    \/ DevInspectSleep
    \/ Close
    \/ ToggleQuery
    \/ ToggleClick
    \/ DateQuery
    \/ DateClick
    \/ SlotQuery
    \/ SlotClick
    \/ ModalWait
    \/ ReservationTypeQuery
    \/ DropdownEval
    \/ DropdownClick
    \/ OptionsWait
    \/ OptionsQuery
    \/ DurationQuery
    \/ DurationClick
    \/ DurationOptionQuery
    \/ SaveQuery
    \/ SaveClick
    \/ DetachWait

Spec == Init /\ [][Next]_vars

\* attempt_booking's label formatting alone: the call of line 251 with every
\* time of day as booking_dt
AllTimes == {[at |-> 1, hour |-> h, minute |-> m] : h \in 0..23, m \in 0..59}

InitFormat ==
    /\ DEV_MODE \in BOOLEAN
    /\ pc = "loop_test"
    /\ now = 0
    /\ exc = "none"
    /\ booking_dt \in AllTimes
    /\ prompts = 0
    /\ browser = "open"
    /\ logged_in = TRUE
    /\ closes = 0
    /\ on_booking_page = TRUE
    /\ target_dt = 0
    /\ wait_now = 0
    /\ seconds = 0
    /\ wait_sleeps = 0
    /\ wait_slept = 0
    /\ retries = 0
    /\ success = FALSE
    /\ attempts = 0
    /\ loop_sleeps = 0
    /\ all_na = TRUE
    /\ fail_msg = FALSE
    /\ steps = <<>>
    /\ slot_button = NoLabel
    /\ time_label = NoLabel
    /\ msg = "none"
    /\ dropdown_button = "unset"

NextFormat == LoopEnter

SpecFormat == InitFormat /\ [][NextFormat]_vars

\* one flow of control: a step that can be taken is taken
FairSpec == Spec /\ WF_vars(Next)

\* the clock has not reached Horizon while the program still computes with it
ClockExactUntilLoop ==
    pc \in {"prompt", "launch", "login_goto", "login_form", "login_confirm", "login_check",
            "wait_call", "wait_loop", "wait_return"} => now < Horizon

----------------------------------------------------------------------------
(* Properties *)

AfterLoopPcs == {"after_loop", "dev_check", "close", "done"}
Last(seq) == seq[Len(seq)]
Range(seq) == {seq[i] : i \in 1..Len(seq)}

\* C1: in the retry loop the number of attempts made (the calls of attempt_booking,
\* and the failed ones counted by retries) never decreases and never exceeds
\* max_retries, whatever the attempts return.
C1_AttemptsBoundedMonotone ==
    /\ [](attempts <= max_retries /\ retries <= max_retries)
    /\ [][attempts' >= attempts /\ retries' >= retries]_vars

C1_Witness == attempts = max_retries /\ retries = max_retries /\ pc = "done"

\* C2: when every attempt ended with the slot not available, the loop is left
\* after exactly max_retries attempts, success is false and the failure message
\* is printed.
C2_ExhaustedAfterMaxAttempts ==
    (pc \in AfterLoopPcs /\ logged_in /\ all_na) =>
        /\ attempts = max_retries
        /\ ~success
        /\ (pc # "after_loop" => fail_msg)

C2_Witness == pc = "done" /\ logged_in /\ all_na /\ attempts = max_retries /\ fail_msg

\* C3: once an attempt has succeeded it is the last one: it is attempt retries + 1
\* (at most max_retries), no attempt and no retry sleep follows it, and the failure
\* message is not printed.
C3_StopsAtFirstSuccess ==
    success =>
        /\ attempts = retries + 1
        /\ attempts <= max_retries
        /\ loop_sleeps = retries
        /\ ~fail_msg
        /\ pc \in {"loop_check", "loop_test"} \cup AfterLoopPcs

C3_Witness == success /\ attempts = max_retries /\ pc = "done"

\* C4 (as claimed): no failure inside an attempt ends the retry loop early; once
\* attempts have started the flow never ends in an uncaught exception.
C4_AttemptFailuresAbsorbed == attempts > 0 => pc # "crashed"

\* C5 (as claimed): no attempt is started before the clock has reached the booking
\* time the user entered.
C5_NoAttemptBeforeBookingTime == attempts > 0 => now >= booking_dt.at

\* C5 (amended): with DEV_MODE false no attempt is started before the clock has
\* reached the booking time; with DEV_MODE true wait_until is given the time 6
\* seconds after the call and returns no earlier than that.
C5_NoAttemptBeforeWaitTarget ==
    /\ (~DEV_MODE /\ attempts > 0) => now >= booking_dt.at
    /\ (DEV_MODE /\ pc = "wait_return") => (target_dt = wait_now + DevWait /\ now >= target_dt)

C5_Witness ==
    ~DEV_MODE /\ pc = "a_toggle_q" /\ attempts = 1 /\ booking_dt.at = MaxTarget
        /\ now = booking_dt.at

\* C6 (as claimed): the slot button an attempt finds and clicks carries exactly
\* the label time_str.
C6_ExactLabelOnly == slot_button # NoLabel => slot_button = time_str(booking_dt)

\* C7: when the modal is still open at the timeout after the save click, the
\* attempt returns true, so the loop stops without a retry, and the line printed
\* is the "uncertain" one, not the one printed when the modal closed.
C7_UncertainIsDistinctSuccess ==
    /\ (steps # <<>> /\ Last(steps) = "still_open") =>
          /\ success
          /\ msg = "uncertain"
          /\ msg # ClosedOutcome.line
          /\ attempts = retries + 1
          /\ pc \in {"loop_check", "loop_test"} \cup AfterLoopPcs
    /\ (steps # <<>> /\ Last(steps) = "detached") => (success /\ msg = "closed")

C7_Witness == pc = "done" /\ steps # <<>> /\ Last(steps) = "still_open" /\ ~fail_msg

\* C8: when wait_until returns the clock is at or after the target, each sleep
\* lasting at least the time asked for.
C8_NeverReturnsEarly == pc = "wait_return" => now >= target_dt

C8_Witness ==
    pc = "wait_return" /\ ~DEV_MODE /\ target_dt > wait_now /\ wait_sleeps >= 2
        /\ now = target_dt

\* C9: when the target is at or before the time wait_until reads on entry, it
\* returns without a sleep and without time passing.
C9_PastTargetNoSleep ==
    (pc \in {"wait_loop", "wait_return"} /\ target_dt <= wait_now) =>
        (wait_sleeps = 0 /\ now = wait_now)

C9_Witness == pc = "wait_return" /\ target_dt < wait_now /\ wait_sleeps = 0

\* C10: from the start of the retry loop the flow always reaches its end: main
\* returns, or an exception leaves it.
C10_LoopTerminates == (pc = "loop_init") ~> (pc \in {"done", "crashed"})

C10_Witness == pc = "done" /\ retries = max_retries /\ ~success /\ browser = "closed"

\* C11 (as claimed): when the reservation-type selector control is absent from
\* the modal (the handle refers to null), the attempt sets the type through the
\* fallback of line 182 and goes on; it does not try to click the control.
C11_FallbackWhenSelectorAbsent == dropdown_button = "null" => "restype" \in Range(steps)

AttemptPcs ==
    {"a_toggle_q", "a_toggle_click", "a_date_q", "a_date_click", "a_slot_q", "a_slot_click",
     "a_modal_wait", "a_restype_q", "a_dropdown_eval", "a_dropdown_click", "a_options_wait",
     "a_options_q", "a_duration_q", "a_duration_click", "a_duration_opt_q", "a_save_q",
     "a_save_click", "a_detach_wait"}

DurationSkipped == {"duration_absent", "duration_options_absent"} \cap Range(steps) # {}

\* C12: an attempt that found no duration control, or no option in its list, goes
\* on to the save button: inside the attempt it is at the save query, the save
\* click or the wait after it, and once it has returned it succeeded exactly when
\* the save button was clicked, the only failure being a missing save button.
C12_DurationAbsenceNotFatal ==
    DurationSkipped =>
        /\ pc \in AttemptPcs => pc \in {"a_save_q", "a_save_click", "a_detach_wait"}
        /\ pc = "crashed" => exc = "save_click"
        /\ pc \notin AttemptPcs \cup {"crashed"} =>
              /\ success <=> "save" \in Range(steps)
              /\ ~success => msg = "save_missing"

C12_Witness ==
    /\ pc = "loop_check" /\ success
    /\ "duration_absent" \in Range(steps)
    /\ "save" \in Range(steps)

StructuralMsgs == {"toggle_missing", "date_missing", "restype_missing", "save_missing"}

\* C13: an attempt that printed a structural failure (toggle, date cell,
\* reservation-type input or save button missing) has ended and returned false
\* with no step after the missing element; it is counted once in retries and
\* followed by the sleep, and when the loop is left after it, max_retries attempts
\* were made and the failure message is printed.
C13_StructuralFailureRetried ==
    msg \in StructuralMsgs =>
        /\ pc \notin AttemptPcs \cup {"crashed"}
        /\ ~success
        /\ msg = "toggle_missing" => steps = <<>>
        /\ msg = "date_missing" => steps = <<"toggle">>
        /\ msg = "restype_missing" => steps = <<"toggle", "date", "slot", "modal">>
        /\ msg = "save_missing" => "save" \notin Range(steps)
        /\ pc = "loop_check" => retries = attempts - 1
        /\ pc = "loop_test" => (retries = attempts /\ loop_sleeps = retries)
        /\ pc \in AfterLoopPcs =>
              /\ retries = max_retries
              /\ attempts = max_retries
              /\ pc # "after_loop" => fail_msg

C13_Witness == pc = "done" /\ msg = "save_missing" /\ retries = max_retries /\ fail_msg

\* C14: every failed attempt is followed by exactly one sleep, of 5 seconds
\* (10 ticks, plus what the sleep overshoots) whatever the attempt number, and a
\* new attempt starts only when each earlier one was followed by its sleep.
C14_OneFixedSleepPerFailure ==
    [][ /\ (pc = "loop_check" /\ ~success) => loop_sleeps' = loop_sleeps + 1
        /\ loop_sleeps' # loop_sleeps =>
              /\ pc = "loop_check" /\ ~success
              /\ loop_sleeps' = loop_sleeps + 1
              /\ retries' = retries + 1
              /\ now' >= Tick(now, Secs(5))
              /\ now' <= Tick(now, Secs(5) + MaxOvershoot)
        /\ attempts' # attempts => (loop_sleeps = attempts /\ retries = attempts)
      ]_vars

C14_Witness == pc = "a_toggle_q" /\ attempts = 3 /\ loop_sleeps = 2 /\ now < Horizon

\* C15: prompt_booking_datetime returns only a time later than the clock at the
\* check: while it is asking nothing is returned, a rejected input leaves it
\* asking, what it returns is after the current time, and the value returned is
\* never changed and is the one every attempt derives its label from.
C15_ReturnedTargetInFutureAndFixed ==
    /\ [](pc = "prompt" => booking_dt = NoDt)
    /\ [](pc = "launch" => (booking_dt # NoDt /\ booking_dt.at > now))
    /\ [](pc \in AttemptPcs => time_label = time_str(booking_dt))
    /\ [][ /\ prompts' = prompts + 1 => (pc' = "prompt" /\ booking_dt' = NoDt)
           /\ pc # "prompt" => booking_dt' = booking_dt ]_vars

C15_Witness ==
    pc = "launch" /\ now = (MaxPrompts + 1) * MaxInputDelay /\ booking_dt.at = now + 1

Hour12Text ==
    << <<"1", "2">>, <<"1">>, <<"2">>, <<"3">>, <<"4">>, <<"5">>, <<"6">>, <<"7">>, <<"8">>,
       <<"9">>, <<"1", "0">>, <<"1", "1">> >>

ExpectedLabel(h, m) ==
    Hour12Text[(h % 12) + 1] \o <<":", Digit[(m \div 10) + 1], Digit[(m % 10) + 1], " ">>
        \o (IF h >= 12 THEN <<"P", "M">> ELSE <<"A", "M">>)

\* C16: for every hour 0..23 and minute 0..59 the label an attempt searches for
\* is the 12-hour hour without a leading zero, a colon, the two-digit minute, a
\* space and AM or PM; 14:05 gives "2:05 PM" and 00:30 gives "12:30 AM".
C16_SlotLabelFormat ==
    pc = "a_toggle_q" =>
        /\ time_label = ExpectedLabel(booking_dt.hour, booking_dt.minute)
        /\ (booking_dt.hour = 14 /\ booking_dt.minute = 5) =>
              time_label = <<"2", ":", "0", "5", " ", "P", "M">>
        /\ (booking_dt.hour = 0 /\ booking_dt.minute = 30) =>
              time_label = <<"1", "2", ":", "3", "0", " ", "A", "M">>

C16_Witness ==
    /\ pc = "a_toggle_q" /\ booking_dt.hour = 0 /\ booking_dt.minute = 30
    /\ time_label = <<"1", "2", ":", "3", "0", " ", "A", "M">>

CoreOrder == <<"toggle", "date", "slot", "modal", "restype", "save">>
IsCoreStep(x) == x \in Range(CoreOrder)
CoreSteps == SelectSeq(steps, IsCoreStep)

\* C17: the steps of an attempt (toggle click, date click, slot click, modal
\* appeared, reservation type set, save click) happen in this order with none
\* left out, so the save button is never clicked without the slot click before
\* it, and an attempt that returned true has done all six.
C17_SuccessNeedsAllStepsInOrder ==
    /\ Len(CoreSteps) <= Len(CoreOrder)
    /\ CoreSteps = SubSeq(CoreOrder, 1, Len(CoreSteps))
    /\ success => CoreSteps = CoreOrder
    /\ "save" \in Range(steps) => "slot" \in Range(steps)

C17_Witness ==
    /\ success /\ pc = "loop_check"
    /\ steps = <<"toggle", "date", "slot", "modal", "restype", "duration_open", "duration",
                 "save", "detached">>

\* C18: in wait_until with a target after the time read on entry, every sleep is
\* asked to last more than 0 and at most 5 seconds, and the durations asked for
\* add up to the remaining time computed at line 97.
C18_SlicesBoundedAndExact ==
    /\ []((pc = "wait_return" /\ target_dt > wait_now) => wait_slept = target_dt - wait_now)
    /\ [][ wait_sleeps' = wait_sleeps + 1 =>
              /\ wait_slept' - wait_slept > 0
              /\ wait_slept' - wait_slept <= Secs(5) ]_vars

C18_Witness ==
    pc = "wait_return" /\ ~DEV_MODE /\ wait_sleeps = 2 /\ wait_slept = Secs(5) + 3

\* C19: when login reports failure main closes the browser and returns at once,
\* without opening the booking page, waiting or attempting; whenever main has
\* returned the browser was closed exactly once, and no step follows a close.
C19_BrowserClosedOnceAtEnd ==
    /\ [](pc = "done" => (closes = 1 /\ browser = "closed"))
    /\ [](browser = "closed" => pc = "done")
    /\ []((pc = "done" /\ ~logged_in) =>
            (~on_booking_page /\ attempts = 0 /\ retries = 0 /\ loop_sleeps = 0))
    /\ [][ /\ browser # "closed"
           /\ (pc = "login_check" /\ ~logged_in) => (pc' = "done" /\ browser' = "closed")
           /\ closes' # closes => (closes' = 1 /\ pc' = "done") ]_vars

C19_Witness == pc = "done" /\ ~logged_in /\ closes = 1 /\ ~on_booking_page

====
